---- MODULE Spec2Model ----
(***************************************************************************)
(* elf_changes.py: the table extractor (the section pass and the symbol    *)
(* pass over the lines of `readelf -a`), the change computer (_changes)    *)
(* and the run of main().                                                  *)
(*                                                                         *)
(* A text line is a sequence of one-character strings, so that the row     *)
(* patterns, the marker tests and the numeric conversions are computed     *)
(* character by character as the code computes them.                       *)
(***************************************************************************)
EXTENDS Integers, Sequences, FiniteSets, TLC

\* ------------------------------------------------------------ bounds
\* The longest input, in lines, a pass is run over.
MaxLines == 5
\* The largest size of an entry of the mappings handed to _changes.
MaxSize == 2

\* -------------------------------------------------------- characters
Digit == {"0", "1", "2", "3", "4", "5", "6", "7", "8", "9"}
LowerHex == {"a", "b", "c", "d", "e", "f"}
UpperHex == {"A", "B", "C", "D", "E", "F"}
Lower == LowerHex \cup {"g", "h", "i", "j", "k", "l", "m", "n", "o", "p", "q", "r",
                        "s", "t", "u", "v", "w", "x", "y", "z"}
Upper == UpperHex \cup {"G", "H", "I", "J", "K", "L", "M", "N", "O", "P", "Q", "R",
                        "S", "T", "U", "V", "W", "X", "Y", "Z"}
\* [a-z] under re.IGNORECASE
Letter == Lower \cup Upper
\* \s
Space == {" ", "\t"}
\* \w
Word == Letter \cup Digit \cup {"_"}
\* [0-9a-f] under re.IGNORECASE
HexDigit == Digit \cup LowerHex \cup UpperHex

\* ----------------------------------------------------- re: patterns
\* One item of a pattern: a character class taken once, or repeated (x* has
\* min 0, x+ has min 1).
One(cls) == [cls |-> cls, min |-> 1, many |-> FALSE]
Plus(cls) == [cls |-> cls, min |-> 1, many |-> TRUE]
Star(cls) == [cls |-> cls, min |-> 0, many |-> TRUE]

\* The end of the longest run of characters of cls that starts at s[i].
RECURSIVE RunEnd(_, _, _)
RunEnd(s, i, cls) ==
    IF i <= Len(s) /\ s[i] \in cls THEN RunEnd(s, i + 1, cls) ELSE i

NoMatch == [ok |-> FALSE, caps |-> <<>>]

\* re.match from item k of pat at s[i]; caps holds the text each earlier item
\* took. A repeated item is greedy. In both row patterns every repeated item is
\* followed by an item whose class is disjoint from its own, so the longest
\* run is the only length with which the rest can match, and the pattern is
\* anchored at the start of the line only (match, not fullmatch).
RECURSIVE MatchFrom(_, _, _, _, _)
MatchFrom(pat, k, s, i, caps) ==
    IF k > Len(pat) THEN [ok |-> TRUE, caps |-> caps]
    ELSE LET e == pat[k]
             j == IF e.many THEN RunEnd(s, i, e.cls)
                  ELSE IF i <= Len(s) /\ s[i] \in e.cls THEN i + 1 ELSE i
         IN  IF j - i < e.min THEN NoMatch
             ELSE MatchFrom(pat, k + 1, s, j, Append(caps, SubSeq(s, i, j - 1)))

re_match(pat, s) == MatchFrom(pat, 1, s, 1, <<>>)

\* ------------------------------------------------- str: helpers, int
\* needle in s
Contains(s, needle) ==
    \E i \in 1..(Len(s) - Len(needle) + 1) :
        SubSeq(s, i, i + Len(needle) - 1) = needle

\* s.startswith(prefix)
StartsWith(s, prefix) ==
    /\ Len(s) >= Len(prefix)
    /\ SubSeq(s, 1, Len(prefix)) = prefix

\* s.strip() == ""
StripIsEmpty(s) == \A i \in 1..Len(s) : s[i] \in Space

\* The value of one digit, in either case.
DigitValue(c) ==
    CASE c = "0" -> 0 [] c = "1" -> 1 [] c = "2" -> 2 [] c = "3" -> 3
      [] c = "4" -> 4 [] c = "5" -> 5 [] c = "6" -> 6 [] c = "7" -> 7
      [] c = "8" -> 8 [] c = "9" -> 9
      [] c \in {"a", "A"} -> 10 [] c \in {"b", "B"} -> 11
      [] c \in {"c", "C"} -> 12 [] c \in {"d", "D"} -> 13
      [] c \in {"e", "E"} -> 14 [] c \in {"f", "F"} -> 15

\* The digits int(s, base) takes in base 10 and in base 16.
DigitsOf(base) == IF base = 16 THEN HexDigit ELSE Digit

\* int(s, base) raises ValueError: s is empty or holds a character that is no
\* digit of the base (a match group holds no sign, prefix or underscore).
int_raises(s, base) ==
    \/ s = <<>>
    \/ \E i \in 1..Len(s) : s[i] \notin DigitsOf(base)

\* int(s, base) of a non-empty run of digits of that base.
RECURSIVE int(_, _)
int(s, base) ==
    IF Len(s) = 0 THEN 0
    ELSE int(SubSeq(s, 1, Len(s) - 1), base) * base + DigitValue(s[Len(s)])

\* Variant of DictPut: a key the dict holds keeps its value (setdefault).
DictPutFirst(m, key, value) ==
    [k \in DOMAIN m \cup {key} |-> IF k \in DOMAIN m THEN m[k] ELSE value]

\* m[key] = value of a dict.
DictPut(m, key, value) ==
    [k \in DOMAIN m \cup {key} |-> IF k = key THEN value ELSE m[k]]

EmptyDict == [k \in {} |-> 0]

\* ------------------------------------------------------ input lines
\* The lines the section pass is run over.
\* the heading line of the section table: "Section Headers:"
SecMarkerLine ==
    <<"S","e","c","t","i","o","n"," ","H","e","a","d","e","r","s",":">>

\* an all-whitespace line (two spaces)
SecBlankLine ==
    <<" "," ">>

\* the table's first row, whose name column is empty: " [ 0]  NULL 00 00 00"
SecNullRow ==
    <<" ","["," ","0","]"," "," ","N","U","L","L"," ","0","0"," ","0","0"," ","0","0">>

\* " [ 1] .text PROGBITS 00 10 2a"
SecTextRow ==
    <<" ","["," ","1","]"," ",".","t","e","x","t"," ","P","R","O","G","B","I","T","S"," ","0",
      "0"," ","1","0"," ","2","a">>

\* the same section with another size: " [ 1] .text PROGBITS 00 10 30"
SecTextRowB ==
    <<" ","["," ","1","]"," ",".","t","e","x","t"," ","P","R","O","G","B","I","T","S"," ","0",
      "0"," ","1","0"," ","3","0">>

\* a row with upper-case hexadecimal and a trailing field: " [ 2] .bss NOBITS 40 3a 0C WA"
SecBssRow ==
    <<" ","["," ","2","]"," ",".","b","s","s"," ","N","O","B","I","T","S"," ","4","0"," ","3",
      "a"," ","0","C"," ","W","A">>

\* a section whose name holds a digit: " [ 3] .data1 PROGBITS 4c 3a 08"
SecData1Row ==
    <<" ","["," ","3","]"," ",".","d","a","t","a","1"," ","P","R","O","G","B","I","T","S"," ",
      "4","c"," ","3","a"," ","0","8">>
SectionLines ==
    {SecMarkerLine, SecBlankLine, SecNullRow, SecTextRow, SecTextRowB, SecBssRow,
     SecData1Row}

\* The lines the symbol pass is run over.
\* the heading line of a symbol table: "Symbol table '.symtab'"
SymMarkerLine ==
    <<"S","y","m","b","o","l"," ","t","a","b","l","e"," ","'",".","s","y","m","t","a","b","'">>

\* an empty line
SymBlankLine ==
    <<>>

\* a row without the trailing name: " 1: 00 0 SECTION LOCAL DEFAULT 1"
SymNoNameRow ==
    <<" ","1",":"," ","0","0"," ","0"," ","S","E","C","T","I","O","N"," ","L","O","C","A","L",
      " ","D","E","F","A","U","L","T"," ","1">>

\* " 2: 3e 10 FUNC GLOBAL DEFAULT 2 foo"
SymFooRow ==
    <<" ","2",":"," ","3","e"," ","1","0"," ","F","U","N","C"," ","G","L","O","B","A","L"," ",
      "D","E","F","A","U","L","T"," ","2"," ","f","o","o">>

\* the same symbol in another row: " 7: 4a 12 FUNC GLOBAL DEFAULT 2 foo"
SymFooRowB ==
    <<" ","7",":"," ","4","a"," ","1","2"," ","F","U","N","C"," ","G","L","O","B","A","L"," ",
      "D","E","F","A","U","L","T"," ","2"," ","f","o","o">>

\* " 3: 5c 4 OBJECT LOCAL DEFAULT 5 bar.1"
SymBarRow ==
    <<" ","3",":"," ","5","c"," ","4"," ","O","B","J","E","C","T"," ","L","O","C","A","L"," ",
      "D","E","F","A","U","L","T"," ","5"," ","b","a","r",".","1">>
\* a garbled row, its size column not decimal: " 4: 6a 1f FUNC GLOBAL DEFAULT 2 baz"
SymGarbledRow ==
    <<" ","4",":"," ","6","a"," ","1","f"," ","F","U","N","C"," ","G","L","O","B","A","L"," ",
      "D","E","F","A","U","L","T"," ","2"," ","b","a","z">>

SymbolLines ==
    {SymMarkerLine, SymBlankLine, SymNoNameRow, SymFooRow, SymFooRowB, SymBarRow,
     SymGarbledRow}

\* ---------------------------------------------------- table extractor
\* "Section Headers:"
SectionMarker ==
    <<"S","e","c","t","i","o","n"," ","H","e","a","d","e","r","s",":">>

\* "Symbol table "
SymbolMarker ==
    <<"S","y","m","b","o","l"," ","t","a","b","l","e"," ">>

\* m = r'\s*\[([0-9 ]+)\]\s+([a-z_\.]+)\s+([a-z_]+)\s+([0-9a-f]+)\s+([a-f0-9]+)\s+([a-f0-9]+)'
\* compiled with re.IGNORECASE
section_re ==
    << Star(Space), One({"["}), Plus(Digit \cup {" "}), One({"]"}),
       Plus(Space), Plus(Letter \cup {"_", "."}),
       Plus(Space), Plus(Letter \cup {"_"}),
       Plus(Space), Plus(HexDigit),
       Plus(Space), Plus(HexDigit),
       Plus(Space), Plus(HexDigit) >>

\* The item of section_re that each group 1..6 is.
section_groups == <<3, 6, 8, 10, 12, 14>>

\* r'\s+\d+:\s+([0-9a-f]+)\s+(\d+)\s+(\w+)\s+(\w+)\s+(\w+)\s+(\d+)\s+([\w\.]+)'
\* compiled with re.IGNORECASE
symbol_re ==
    << Plus(Space), Plus(Digit), One({":"}),
       Plus(Space), Plus(HexDigit),
       Plus(Space), Plus(Digit),
       Plus(Space), Plus(Word),
       Plus(Space), Plus(Word),
       Plus(Space), Plus(Word),
       Plus(Space), Plus(Digit),
       Plus(Space), Plus(Word \cup {"."}) >>

\* The item of symbol_re that each group 1..7 is.
symbol_groups == <<5, 7, 9, 11, 13, 15, 17>>

\* e.match(f) of the section pass, for each input line.
SectionMatch == [f \in SectionLines \cup SymbolLines |-> re_match(section_re, f)]

\* e.match(l) of the symbol pass, for each input line.
SymbolMatch == [l \in SectionLines \cup SymbolLines |-> re_match(symbol_re, l)]

\* match.group(n)
section_group(match, n) == match.caps[section_groups[n]]
symbol_group(match, n) == match.caps[symbol_groups[n]]

\* new_section = {"name": ..., "type": ..., "address": ..., "offset": ..., "size": ...}
new_section(match) ==
    [name |-> section_group(match, 2),
     type |-> section_group(match, 3),
     address |-> int(section_group(match, 4), 16),
     offset |-> int(section_group(match, 5), 16),
     size |-> int(section_group(match, 6), 16)]

\* s = {"address": ..., "size": ..., "name": ...}
new_symbol(match) ==
    [address |-> int(symbol_group(match, 1), 16),
     size |-> int(symbol_group(match, 2), 10),
     name |-> symbol_group(match, 7)]

\* Building new_section from the match raises ValueError.
new_section_raises(match) ==
    \/ int_raises(section_group(match, 4), 16)
    \/ int_raises(section_group(match, 5), 16)
    \/ int_raises(section_group(match, 6), 16)

\* Building s from the match raises ValueError.
new_symbol_raises(match) ==
    \/ int_raises(symbol_group(match, 1), 16)
    \/ int_raises(symbol_group(match, 2), 10)

\* Variant of sections_body: the row pattern is tried on every line, whether
\* or not the marker has been seen.
sections_body_any_mode(inh, secs, f) ==
    LET match == SectionMatch[f]
        left == IF ~inh THEN Contains(f, SectionMarker)
                ELSE IF StripIsEmpty(f) THEN FALSE ELSE inh
    IN  [in_headers |-> left,
         sections |-> IF match.ok
                      THEN DictPut(secs, section_group(match, 2), new_section(match))
                      ELSE secs,
         raised |-> FALSE]

\* Variant of sections_body: an all-whitespace line does not end the table.
sections_body_no_end(inh, secs, f) ==
    IF ~inh
    THEN [in_headers |-> Contains(f, SectionMarker), sections |-> secs,
          raised |-> FALSE]
    ELSE LET match == SectionMatch[f]
         IN  [in_headers |-> inh,
              sections |-> IF match.ok
                           THEN DictPut(secs, section_group(match, 2),
                                        new_section(match))
                           ELSE secs,
              raised |-> FALSE]

\* The body of the loop of _parse_readelf_sections on the line f: the values
\* of in_headers and sections after it, and whether it raised.
sections_body(inh, secs, f) ==
    IF ~inh
    THEN [in_headers |-> Contains(f, SectionMarker), sections |-> secs,
          raised |-> FALSE]
    ELSE LET match == SectionMatch[f]
             left == IF StripIsEmpty(f) THEN FALSE ELSE inh
         IN  IF match.ok /\ new_section_raises(match)
             THEN [in_headers |-> left, sections |-> secs, raised |-> TRUE]
             ELSE [in_headers |-> left,
                   sections |-> IF match.ok
                                THEN DictPut(secs, section_group(match, 2),
                                             new_section(match))
                                ELSE secs,
                   raised |-> FALSE]

\* Variant of symbols_body: a line of the table that is no row ends the
\* table.
symbols_body_strict(intab, syms, l) ==
    IF ~intab
    THEN [in_table |-> StartsWith(l, SymbolMarker), symbols |-> syms,
          raised |-> FALSE]
    ELSE LET match == SymbolMatch[l]
         IN  [in_table |-> match.ok,
              symbols |-> IF match.ok
                          THEN DictPut(syms, symbol_group(match, 7),
                                       new_symbol(match))
                          ELSE syms,
              raised |-> FALSE]

\* Variant of symbols_body: an all-whitespace line ends the table, as in the
\* section pass.
symbols_body_blank_ends(intab, syms, l) ==
    IF ~intab
    THEN [in_table |-> StartsWith(l, SymbolMarker), symbols |-> syms,
          raised |-> FALSE]
    ELSE LET match == SymbolMatch[l]
         IN  [in_table |-> IF StripIsEmpty(l) THEN FALSE ELSE intab,
              symbols |-> IF match.ok
                          THEN DictPut(syms, symbol_group(match, 7),
                                       new_symbol(match))
                          ELSE syms,
              raised |-> FALSE]

\* The body of the loop of _parse_readelf_symbols on the line l.
symbols_body(intab, syms, l) ==
    IF ~intab
    THEN [in_table |-> StartsWith(l, SymbolMarker), symbols |-> syms,
          raised |-> FALSE]
    ELSE LET match == SymbolMatch[l]
         IN  IF match.ok /\ new_symbol_raises(match)
             THEN [in_table |-> intab, symbols |-> syms, raised |-> TRUE]
             ELSE [in_table |-> intab,
                   symbols |-> IF match.ok
                               THEN DictPut(syms, symbol_group(match, 7),
                                            new_symbol(match))
                               ELSE syms,
                   raised |-> FALSE]

\* The loop of _parse_readelf_sections over lines, from the state st; an
\* exception ends it.
RECURSIVE sections_loop(_, _)
sections_loop(st, lines) ==
    IF lines = <<>> \/ st.raised THEN st
    ELSE sections_loop(sections_body(st.in_headers, st.sections, Head(lines)),
                       Tail(lines))

RECURSIVE symbols_loop(_, _)
symbols_loop(st, lines) ==
    IF lines = <<>> \/ st.raised THEN st
    ELSE symbols_loop(symbols_body(st.in_table, st.symbols, Head(lines)),
                      Tail(lines))

\* _parse_readelf_sections(readelf_lines): what it returns, and whether it
\* raises instead.
sections_run(lines) ==
    sections_loop([in_headers |-> FALSE, sections |-> EmptyDict, raised |-> FALSE],
                  lines)
_parse_readelf_sections(lines) == sections_run(lines).sections

\* _parse_readelf_symbols(readelf_lines)
symbols_run(lines) ==
    symbols_loop([in_table |-> FALSE, symbols |-> EmptyDict, raised |-> FALSE],
                 lines)
_parse_readelf_symbols(lines) == symbols_run(lines).symbols

\* ---------------------------------------------------- change computer
\* Variant of changes_old_body: a removed entry's diff is its size, not the
\* negated size.
changes_old_body_unsigned(chg, old_map, new_map, s) ==
    LET old_rec == old_map[s]
    IN  IF s \in DOMAIN new_map
        THEN LET new_rec == new_map[s]
             IN  IF old_rec.size # new_rec.size
                 THEN DictPut(chg, s, [old |-> old_rec.size, new |-> new_rec.size,
                                       diff |-> new_rec.size - old_rec.size,
                                       change |-> "resize"])
                 ELSE chg
        ELSE DictPut(chg, s, [old |-> old_rec.size, new |-> 0,
                              diff |-> old_rec.size, change |-> "removed"])

\* Variant of changes_old_body: the sizes are not compared, every entry of
\* both mappings is reported as a resize.
changes_old_body_uncompared(chg, old_map, new_map, s) ==
    LET old_rec == old_map[s]
    IN  IF s \in DOMAIN new_map
        THEN LET new_rec == new_map[s]
             IN  DictPut(chg, s, [old |-> old_rec.size, new |-> new_rec.size,
                                  diff |-> new_rec.size - old_rec.size,
                                  change |-> "resize"])
        ELSE DictPut(chg, s, [old |-> old_rec.size, new |-> 0,
                              diff |-> -old_rec.size, change |-> "removed"])

\* The first loop of _changes, `for s in old_map`, on the key s.
changes_old_body(chg, old_map, new_map, s) ==
    LET old_rec == old_map[s]
    IN  IF s \in DOMAIN new_map
        THEN LET new_rec == new_map[s]
             IN  IF old_rec.size # new_rec.size
                 THEN DictPut(chg, s, [old |-> old_rec.size, new |-> new_rec.size,
                                       diff |-> new_rec.size - old_rec.size,
                                       change |-> "resize"])
                 ELSE chg
        ELSE DictPut(chg, s, [old |-> old_rec.size, new |-> 0,
                              diff |-> -old_rec.size, change |-> "removed"])

\* Variant of changes_new_body: an added entry is given the old size instead
\* of the new one (old and new exchanged).
changes_new_body_exchanged(chg, old_map, new_map, s) ==
    IF ~(s \in DOMAIN old_map)
    THEN LET new_rec == new_map[s]
         IN  DictPut(chg, s, [old |-> new_rec.size, new |-> 0,
                              diff |-> new_rec.size, change |-> "added"])
    ELSE chg

\* The second loop of _changes, `for s in new_map`, on the key s.
changes_new_body(chg, old_map, new_map, s) ==
    IF ~(s \in DOMAIN old_map)
    THEN LET new_rec == new_map[s]
         IN  DictPut(chg, s, [old |-> 0, new |-> new_rec.size,
                              diff |-> new_rec.size, change |-> "added"])
    ELSE chg

\* `for s in old_map` over the keys left. A turn writes changes[s] only, so
\* the order in which the dict yields its keys does not show in the result.
RECURSIVE changes_old_loop(_, _, _, _)
changes_old_loop(chg, old_map, new_map, keys) ==
    IF keys = {} THEN chg
    ELSE LET s == CHOOSE x \in keys : TRUE
         IN  changes_old_loop(changes_old_body(chg, old_map, new_map, s),
                              old_map, new_map, keys \ {s})

RECURSIVE changes_new_loop(_, _, _, _)
changes_new_loop(chg, old_map, new_map, keys) ==
    IF keys = {} THEN chg
    ELSE LET s == CHOOSE x \in keys : TRUE
         IN  changes_new_loop(changes_new_body(chg, old_map, new_map, s),
                              old_map, new_map, keys \ {s})

\* _changes(old_map, new_map)
_changes(old_map, new_map) ==
    changes_new_loop(
        changes_old_loop(EmptyDict, old_map, new_map, DOMAIN old_map),
        old_map, new_map, DOMAIN new_map)

\* ------------------------------------------------------------- state
VARIABLES
    pc,             \* where the program is
    readelf_lines,  \* extractor: the lines the running pass has taken so far
    in_headers,     \* _parse_readelf_sections: in_headers
    sections,       \* _parse_readelf_sections: sections
    in_table,       \* _parse_readelf_symbols: in_table
    symbols,        \* _parse_readelf_symbols: symbols
    result,         \* what the pass returned
    args_html,      \* main: whether --html was given
    returncode,     \* s.returncode of each readelf run that has ended
    old,            \* __init__: old, the lines of readelf's output
    new,            \* __init__: new
    _old_sections,  \* self._old_sections
    _new_sections,  \* self._new_sections
    _old_symbols,   \* self._old_symbols
    _new_symbols,   \* self._new_symbols
    stdout,         \* the tables main has written to standard output
    html,           \* the tables main has written to the --html file
    exit_code       \* the exit status of the program, "none" while it runs

extractVars == <<readelf_lines, in_headers, sections, in_table, symbols, result>>
tableVars == <<_old_sections, _new_sections, _old_symbols, _new_symbols>>
mainVars == <<args_html, returncode, old, new, stdout, html, exit_code>>
vars == <<pc, extractVars, tableVars, mainVars>>

NoResult == "none"

\* No pass is running.
ExtractIdle ==
    /\ readelf_lines = <<>>
    /\ in_headers = FALSE
    /\ sections = EmptyDict
    /\ in_table = FALSE
    /\ symbols = EmptyDict
    /\ result = EmptyDict

\* No object has been constructed and main has done nothing.
MainIdle ==
    /\ args_html = FALSE
    /\ returncode = EmptyDict
    /\ old = <<>>
    /\ new = <<>>
    /\ _old_sections = EmptyDict
    /\ _new_sections = EmptyDict
    /\ _old_symbols = EmptyDict
    /\ _new_symbols = EmptyDict
    /\ stdout = <<>>
    /\ html = <<>>
    /\ exit_code = NoResult

\* ----------------------------------------- extractor: one pass, by line
ExtractInit ==
    /\ pc = "call"
    /\ ExtractIdle
    /\ MainIdle

\* _parse_readelf_sections is entered: in_headers = False, sections = {}.
SectionsCall ==
    /\ pc = "call"
    /\ pc' = "sections"
    /\ in_headers' = FALSE
    /\ sections' = EmptyDict
    /\ UNCHANGED <<readelf_lines, in_table, symbols, result, tableVars, mainVars>>

\* One turn of `for f in readelf_lines`.
SectionsLine ==
    /\ pc = "sections"
    /\ Len(readelf_lines) < MaxLines
    /\ \E f \in SectionLines :
          LET st == sections_body(in_headers, sections, f)
          IN  /\ readelf_lines' = Append(readelf_lines, f)
              /\ in_headers' = st.in_headers
              /\ sections' = st.sections
              /\ pc' = IF st.raised THEN "raised" ELSE pc
    /\ UNCHANGED <<in_table, symbols, result, tableVars, mainVars>>

\* The lines are exhausted: return sections.
SectionsReturn ==
    /\ pc = "sections"
    /\ pc' = "sections_returned"
    /\ result' = sections
    /\ UNCHANGED <<readelf_lines, in_headers, sections, in_table, symbols, tableVars, mainVars>>

\* _parse_readelf_symbols is entered: in_table = False, symbols = {}.
SymbolsCall ==
    /\ pc = "call"
    /\ pc' = "symbols"
    /\ in_table' = FALSE
    /\ symbols' = EmptyDict
    /\ UNCHANGED <<readelf_lines, in_headers, sections, result, tableVars, mainVars>>

\* One turn of `for l in readelf_lines`.
SymbolsLine ==
    /\ pc = "symbols"
    /\ Len(readelf_lines) < MaxLines
    /\ \E l \in SymbolLines :
          LET st == symbols_body(in_table, symbols, l)
          IN  /\ readelf_lines' = Append(readelf_lines, l)
              /\ in_table' = st.in_table
              /\ symbols' = st.symbols
              /\ pc' = IF st.raised THEN "raised" ELSE pc
    /\ UNCHANGED <<in_headers, sections, result, tableVars, mainVars>>

\* The lines are exhausted: return symbols.
SymbolsReturn ==
    /\ pc = "symbols"
    /\ pc' = "symbols_returned"
    /\ result' = symbols
    /\ UNCHANGED <<readelf_lines, in_headers, sections, in_table, symbols, tableVars, mainVars>>

ExtractNext ==
    \/ SectionsCall
    \/ SectionsLine
    \/ SectionsReturn
    \/ SymbolsCall
    \/ SymbolsLine
    \/ SymbolsReturn

SpecExtract == ExtractInit /\ [][ExtractNext]_vars

\* ------------------------------------------------------- main: the run
\* symbol_changes(): self._changes(self._old_symbols, self._new_symbols)
symbol_changes == _changes(_old_symbols, _new_symbols)

\* section_changes(): self._changes(self._old_sections, self._new_sections)
section_changes == _changes(_old_sections, _new_sections)

\* What a run of `readelf -a` may leave on its standard output, as
\* stdout.decode("utf-8").split("\n") gives it: nothing (one empty line), a
\* dump, another dump of a later build, or a dump cut short.
NoOutput == <<SymBlankLine>>
DumpA ==
    <<SecMarkerLine, SecNullRow, SecTextRow, SecBssRow, SecBlankLine,
      SymMarkerLine, SymNoNameRow, SymFooRow, SymBarRow, SymBlankLine>>
DumpB ==
    <<SecMarkerLine, SecNullRow, SecTextRowB, SecBlankLine,
      SymMarkerLine, SymNoNameRow, SymFooRowB, SymBlankLine>>
DumpCut == <<SecMarkerLine, SecNullRow, SecTextRow>>
ReadelfOutputs == {NoOutput, DumpA, DumpB, DumpCut}

\* The exit status of readelf: 0, or 1 when it cannot process the file.
ReadelfStatus == {0, 1}

\* main() has parsed its arguments.
MainInit ==
    /\ pc = "capture_old"
    /\ ExtractIdle
    /\ args_html \in BOOLEAN
    /\ returncode = EmptyDict
    /\ old = <<>>
    /\ new = <<>>
    /\ _old_sections = EmptyDict
    /\ _new_sections = EmptyDict
    /\ _old_symbols = EmptyDict
    /\ _new_symbols = EmptyDict
    /\ stdout = <<>>
    /\ html = <<>>
    /\ exit_code = NoResult

\* old = self._capture_readelf(old_elf): subprocess.run without check=True
\* returns whatever the exit status is, and s.returncode is never read.
CaptureOld ==
    /\ pc = "capture_old"
    /\ \E status \in ReadelfStatus, out \in ReadelfOutputs :
          /\ returncode' = DictPut(returncode, "old", status)
          /\ old' = out
    /\ pc' = "capture_new"
    /\ UNCHANGED <<extractVars, tableVars, args_html, new, stdout, html, exit_code>>

\* new = self._capture_readelf(new_elf)
CaptureNew ==
    /\ pc = "capture_new"
    /\ \E status \in ReadelfStatus, out \in ReadelfOutputs :
          /\ returncode' = DictPut(returncode, "new", status)
          /\ new' = out
    /\ pc' = "parse_sections"
    /\ UNCHANGED <<extractVars, tableVars, args_html, old, stdout, html, exit_code>>

\* subprocess.run raises (no readelf executable under that prefix): the
\* exception is caught nowhere and the interpreter exits with status 1.
CaptureRaise ==
    /\ pc \in {"capture_old", "capture_new"}
    /\ pc' = "exit"
    /\ exit_code' = 1
    /\ UNCHANGED <<extractVars, tableVars, args_html, returncode, old, new, stdout, html>>

\* self._old_sections = ...; self._new_sections = ...; an exception out of a
\* pass is caught nowhere and ends the program with status 1.
ParseSections ==
    /\ pc = "parse_sections"
    /\ IF sections_run(old).raised \/ sections_run(new).raised
       THEN /\ pc' = "exit"
            /\ exit_code' = 1
            /\ UNCHANGED <<_old_sections, _new_sections>>
       ELSE /\ pc' = "parse_symbols"
            /\ _old_sections' = _parse_readelf_sections(old)
            /\ _new_sections' = _parse_readelf_sections(new)
            /\ UNCHANGED exit_code
    /\ UNCHANGED <<extractVars, _old_symbols, _new_symbols, args_html, returncode,
                   old, new, stdout, html>>

\* self._old_symbols = ...; self._new_symbols = ...
ParseSymbols ==
    /\ pc = "parse_symbols"
    /\ IF symbols_run(old).raised \/ symbols_run(new).raised
       THEN /\ pc' = "exit"
            /\ exit_code' = 1
            /\ UNCHANGED <<_old_symbols, _new_symbols>>
       ELSE /\ pc' = "text"
            /\ _old_symbols' = _parse_readelf_symbols(old)
            /\ _new_symbols' = _parse_readelf_symbols(new)
            /\ UNCHANGED exit_code
    /\ UNCHANGED <<extractVars, _old_sections, _new_sections, args_html, returncode,
                   old, new, stdout, html>>

\* The two output_text_table calls of main: the table of each mapping.
TextReport ==
    /\ pc = "text"
    /\ stdout' = <<[title |-> "Symbol Changes", rows |-> symbol_changes],
                   [title |-> "Section Changes", rows |-> section_changes]>>
    /\ pc' = "html"
    /\ UNCHANGED <<extractVars, tableVars, args_html, returncode, old, new, html, exit_code>>

\* `if args.html:` and the two output_html_table calls.
HtmlReport ==
    /\ pc = "html"
    /\ html' = IF args_html
               THEN <<[title |-> "Symbol Changes", rows |-> symbol_changes],
                      [title |-> "Section Changes", rows |-> section_changes]>>
               ELSE html
    /\ pc' = "return"
    /\ UNCHANGED <<extractVars, tableVars, args_html, returncode, old, new, stdout, exit_code>>

\* main() returns and the interpreter exits with status 0.
Exit ==
    /\ pc = "return"
    /\ pc' = "exit"
    /\ exit_code' = 0
    /\ UNCHANGED <<extractVars, tableVars, args_html, returncode, old, new, stdout, html>>

MainNext ==
    \/ CaptureOld
    \/ CaptureNew
    \/ CaptureRaise
    \/ ParseSections
    \/ ParseSymbols
    \/ TextReport
    \/ HtmlReport
    \/ Exit

SpecMain == MainInit /\ [][MainNext]_vars

\* ------------------------------------ the change computer on any tables
\* The names and the records of the mappings: values that carry a size.
Names == {"foo", "bar", "baz"}
Maps ==
    UNION {[keys -> [size : 0..MaxSize]] : keys \in SUBSET Names}

\* An object whose symbol tables, or whose section tables, are any two
\* mappings; main is about to report.
ChangesInit ==
    /\ pc = "text"
    /\ ExtractIdle
    /\ args_html \in BOOLEAN
    /\ returncode = [k \in {"old", "new"} |-> 0]
    /\ old = <<>>
    /\ new = <<>>
    /\ \E a \in Maps, b \in Maps :
          \/ /\ _old_symbols = a
             /\ _new_symbols = b
             /\ _old_sections = EmptyDict
             /\ _new_sections = EmptyDict
          \/ /\ _old_sections = a
             /\ _new_sections = b
             /\ _old_symbols = EmptyDict
             /\ _new_symbols = EmptyDict
    /\ stdout = <<>>
    /\ html = <<>>
    /\ exit_code = NoResult

ChangesNext ==
    \/ TextReport
    \/ HtmlReport
    \/ Exit

SpecChanges == ChangesInit /\ [][ChangesNext]_vars

\* ================================================= the change computer
\* The tables main has written to standard output.
Reported == Len(stdout) = 2

\* The names the change mapping of (o, n) must hold.
ChangedNames(o, n) ==
    {k \in DOMAIN o \cap DOMAIN n : o[k].size # n[k].size}
        \cup (DOMAIN o \ DOMAIN n) \cup (DOMAIN n \ DOMAIN o)

\* The record the change mapping of (o, n) must hold under the name k.
ChangeRecord(o, n, k) ==
    IF k \in DOMAIN o /\ k \in DOMAIN n
    THEN [old |-> o[k].size, new |-> n[k].size, diff |-> n[k].size - o[k].size,
          change |-> "resize"]
    ELSE IF k \in DOMAIN o
    THEN [old |-> o[k].size, new |-> 0, diff |-> 0 - o[k].size, change |-> "removed"]
    ELSE [old |-> 0, new |-> n[k].size, diff |-> n[k].size, change |-> "added"]

ExactChanges(o, n, chg) ==
    /\ DOMAIN chg = ChangedNames(o, n)
    /\ \A k \in DOMAIN chg :
          /\ chg[k] = ChangeRecord(o, n, k)
          /\ chg[k].diff = chg[k].new - chg[k].old
    /\ \A k \in DOMAIN o \cap DOMAIN n :
          o[k].size = n[k].size => k \notin DOMAIN chg

\* C1: for any two mappings old and new, _changes(old, new) holds exactly the
\* names in both with different sizes (old, new, diff = new - old, resize),
\* the names only in old (old size, 0, -old size, removed) and the names only
\* in new (0, new size, +new size, added); a name in both with equal sizes has
\* no entry, and every record has diff = new - old.
C1_ChangesExact ==
    Reported =>
        /\ ExactChanges(_old_symbols, _new_symbols, stdout[1].rows)
        /\ ExactChanges(_old_sections, _new_sections, stdout[2].rows)

\* C1 witness: a reported symbol mapping with a resized, a removed and an
\* added name, next to a name of equal size in both tables.
C1_Witness ==
    /\ Reported
    /\ \E a, b, c \in DOMAIN stdout[1].rows :
          /\ stdout[1].rows[a].change = "resize"
          /\ stdout[1].rows[a].diff < 0
          /\ stdout[1].rows[b].change = "removed"
          /\ stdout[1].rows[b].old > 0
          /\ stdout[1].rows[c].change = "added"
          /\ stdout[1].rows[c].new > 0

\* C2: for any mapping A, _changes(A, A) is empty, so symbol_changes() and
\* section_changes() are empty when the old and the new table are the same.
C2_NoChangeIsEmpty ==
    Reported =>
        /\ _old_symbols = _new_symbols => stdout[1].rows = EmptyDict
        /\ _old_sections = _new_sections => stdout[2].rows = EmptyDict

\* C2 witness: a report of two identical section tables of three names.
C2_Witness ==
    /\ Reported
    /\ _old_sections = _new_sections
    /\ DOMAIN _old_sections = Names
    /\ stdout[2].rows = EmptyDict

\* The entries of chg = _changes(o, n) for the names only in o, and those of
\* _changes(n, o) for the same names.
Antisymmetric(o, n, chg) ==
    \A k \in DOMAIN o \ DOMAIN n :
        LET size == o[k].size
            back == _changes(n, o)
        IN  /\ k \in DOMAIN chg
            /\ chg[k] = [old |-> size, new |-> 0, diff |-> 0 - size, change |-> "removed"]
            /\ k \in DOMAIN back
            /\ back[k] = [old |-> 0, new |-> size, diff |-> size, change |-> "added"]

\* C3: for a name only in A with size s, _changes(A, B) reports it removed
\* with old = s, new = 0, diff = -s, and _changes(B, A) reports it added with
\* old = 0, new = s, diff = +s.
C3_SwapIsAntisymmetric ==
    Reported =>
        /\ Antisymmetric(_old_symbols, _new_symbols, stdout[1].rows)
        /\ Antisymmetric(_old_sections, _new_sections, stdout[2].rows)

\* C3 witness: a reported removal of a name of size > 0 that only the old
\* symbol table holds, while the new table holds other names.
C3_Witness ==
    /\ Reported
    /\ _new_symbols # EmptyDict
    /\ \E k \in DOMAIN _old_symbols \ DOMAIN _new_symbols :
          /\ _old_symbols[k].size > 0
          /\ stdout[1].rows[k].change = "removed"

\* ============================================================ the run
\* A readelf run that could not process its file.
ReadelfFailed(which) == which \in DOMAIN returncode /\ returncode[which] # 0

\* C4: if readelf cannot process the old or the new binary (it exits
\* non-zero), the run ends in a fatal error with a non-zero exit code: no
\* table is built from that binary's output and no report is written.
C4_ReadelfFailureIsFatal ==
    pc = "exit" =>
        /\ ReadelfFailed("old") =>
               _old_sections = EmptyDict /\ _old_symbols = EmptyDict
        /\ ReadelfFailed("new") =>
               _new_sections = EmptyDict /\ _new_symbols = EmptyDict
        /\ ReadelfFailed("old") \/ ReadelfFailed("new") =>
               /\ exit_code # 0
               /\ stdout = <<>>
               /\ html = <<>>

\* ================================================== the table extractor
\* The running or returned pass is the section pass, or the symbol pass.
InSections == pc \in {"sections", "sections_returned"}
InSymbols == pc \in {"symbols", "symbols_returned"}

\* The largest member of a non-empty set of line numbers.
Last(S) == CHOOSE i \in S : \A j \in S : j <= i

\* The name and the record of a line that matches the row pattern of a pass.
section_name(f) == section_group(SectionMatch[f], 2)
symbol_name(l) == symbol_group(SymbolMatch[l], 7)

\* Line i of lines is read in in-table mode of the section pass: some earlier
\* line holds the marker and no line between the two is all whitespace.
InTableAt(lines, i) ==
    \E j \in 1..(i - 1) :
        /\ Contains(lines[j], SectionMarker)
        /\ \A k \in (j + 1)..(i - 1) : ~StripIsEmpty(lines[k])

\* The lines of the section pass that are shaped like a row and read in
\* in-table mode.
SectionRowsInTable(lines) ==
    {i \in 1..Len(lines) : SectionMatch[lines[i]].ok /\ InTableAt(lines, i)}

\* Line i of lines comes after the first marker line of the symbol pass.
AfterSymbolMarker(lines, i) ==
    \E j \in 1..(i - 1) : StartsWith(lines[j], SymbolMarker)

\* The lines of the symbol pass that are shaped like a row and come after the
\* first marker line.
SymbolRowsAfterMarker(lines) ==
    {i \in 1..Len(lines) : SymbolMatch[lines[i]].ok /\ AfterSymbolMarker(lines, i)}

\* The mapping in which each name of the rows acc of lines holds the record of
\* the last of them that bears it.
LastSections(lines, acc) ==
    [n \in {section_name(lines[i]) : i \in acc} |->
        new_section(SectionMatch[lines[Last({i \in acc : section_name(lines[i]) = n})]])]

LastSymbols(lines, acc) ==
    [n \in {symbol_name(lines[i]) : i \in acc} |->
        new_symbol(SymbolMatch[lines[Last({i \in acc : symbol_name(lines[i]) = n})]])]

\* C5: extraction is total: on any sequence of lines neither pass raises, and
\* when no line holds the section marker (no line begins with the symbol
\* marker) the mapping is empty, whatever row-shaped lines the input holds.
C5_ExtractionTotal ==
    /\ pc # "raised"
    /\ InSections /\ (\A i \in 1..Len(readelf_lines) :
                          ~Contains(readelf_lines[i], SectionMarker))
          => /\ sections = EmptyDict
             /\ pc = "sections_returned" => result = EmptyDict
    /\ InSymbols /\ (\A i \in 1..Len(readelf_lines) :
                         ~StartsWith(readelf_lines[i], SymbolMarker))
          => /\ symbols = EmptyDict
             /\ pc = "symbols_returned" => result = EmptyDict

\* C5 witness: the section pass has returned from an input of row-shaped
\* lines and blank lines that holds no marker.
C5_Witness ==
    /\ pc = "sections_returned"
    /\ Len(readelf_lines) >= 3
    /\ \A i \in 1..Len(readelf_lines) : ~Contains(readelf_lines[i], SectionMarker)
    /\ \E i \in 1..Len(readelf_lines) : SectionMatch[readelf_lines[i]].ok
    /\ result = EmptyDict

\* The row shape of the section table as documented: a bracketed index, a
\* name of letters, digits, underscore and dot, a type tag and three
\* hexadecimal fields.
documented_section_re ==
    << Star(Space), One({"["}), Plus(Digit \cup {" "}), One({"]"}),
       Plus(Space), Plus(Letter \cup Digit \cup {"_", "."}),
       Plus(Space), Plus(Letter \cup {"_"}),
       Plus(Space), Plus(HexDigit),
       Plus(Space), Plus(HexDigit),
       Plus(Space), Plus(HexDigit) >>

DocumentedSectionMatch == [f \in SectionLines |-> re_match(documented_section_re, f)]

\* C6: in the section pass, in in-table mode, every line made of a bracketed
\* index, a name of letters, digits, underscore and dot, a type tag and three
\* hexadecimal fields yields one record stored under that full name, with
\* address, offset and size taken from the three fields in that order.
C6_RowInTableIsRecorded ==
    pc = "sections" /\ readelf_lines # <<>> =>
        LET i == Len(readelf_lines)
            m == DocumentedSectionMatch[readelf_lines[i]]
            name == m.caps[section_groups[2]]
        IN  InTableAt(readelf_lines, i) /\ m.ok =>
                /\ name \in DOMAIN sections
                /\ sections[name] =
                       [name |-> name,
                        type |-> m.caps[section_groups[3]],
                        address |-> int(m.caps[section_groups[4]], 16),
                        offset |-> int(m.caps[section_groups[5]], 16),
                        size |-> int(m.caps[section_groups[6]], 16)]

\* The whitespace-separated fields of a line.
RECURSIVE FieldsFrom(_, _)
FieldsFrom(l, i) ==
    IF i > Len(l) THEN <<>>
    ELSE IF l[i] \in Space THEN FieldsFrom(l, i + 1)
    ELSE LET j == RunEnd(l, i, {c \in {l[k] : k \in 1..Len(l)} : c \notin Space})
         IN  <<SubSeq(l, i, j - 1)>> \o FieldsFrom(l, j)

Fields(l) == FieldsFrom(l, 1)

\* A symbol row whose trailing name is absent: the index and the six fields
\* before the name, and nothing after them.
NameAbsent(l) ==
    /\ re_match(SubSeq(symbol_re, 1, 15), l).ok
    /\ Len(Fields(l)) = 7

\* lines without its line i.
Without(lines, i) == SubSeq(lines, 1, i - 1) \o SubSeq(lines, i + 1, Len(lines))

\* C7: in the symbol pass, a line inside a symbol-table block whose trailing
\* name is absent, or that does not match the row shape, produces no entry
\* and does not disturb the pass: the mapping equals the one obtained from
\* the input with that line deleted, and the well-formed rows after it are
\* recorded.
C7_MismatchIsSkipped ==
    InSymbols =>
        \A i \in 1..Len(readelf_lines) :
            /\ AfterSymbolMarker(readelf_lines, i)
            /\ NameAbsent(readelf_lines[i]) \/ ~SymbolMatch[readelf_lines[i]].ok
            => /\ symbols_run(SubSeq(readelf_lines, 1, i)) =
                      symbols_run(SubSeq(readelf_lines, 1, i - 1))
               /\ symbols = _parse_readelf_symbols(Without(readelf_lines, i))
               /\ \A j \in (i + 1)..Len(readelf_lines) :
                      SymbolMatch[readelf_lines[j]].ok =>
                          symbol_name(readelf_lines[j]) \in DOMAIN symbols

\* C7 witness: a symbol table with a row, a row without a name and another
\* row; the two named rows are recorded.
C7_Witness ==
    /\ pc = "symbols_returned"
    /\ readelf_lines = <<SymMarkerLine, SymFooRow, SymNoNameRow, SymBarRow>>
    /\ NameAbsent(readelf_lines[3])
    /\ DOMAIN result = {symbol_name(SymFooRow), symbol_name(SymBarRow)}

\* C8: in the section pass a row-shaped line yields a record if and only if
\* it is read in in-table mode, which a line holding "Section Headers:" enters
\* and the first all-whitespace line after it leaves: rows before the first
\* marker and rows between a blank line and the next marker give no record, a
\* later marker enters the mode again, and a non-blank line that is no row
\* does not leave it.
C8_SectionTableMode ==
    InSections =>
        /\ in_headers = InTableAt(readelf_lines, Len(readelf_lines) + 1)
        /\ sections = LastSections(readelf_lines, SectionRowsInTable(readelf_lines))
        /\ pc = "sections_returned" => result = sections

\* C8 witness: a table ended by a blank line, a row outside any table that
\* gives no record, a second marker and a row that is recorded.
C8_Witness ==
    /\ pc = "sections"
    /\ readelf_lines = <<SecMarkerLine, SecBlankLine, SecBssRow, SecMarkerLine,
                         SecTextRow>>
    /\ in_headers
    /\ DOMAIN sections = {section_name(SecTextRow)}

\* C9: in the symbol pass the in-table state holds from the first line that
\* begins with "Symbol table " to the end of the input: blank lines and
\* further marker lines do not leave it, every row-shaped line after the
\* first marker is recorded into the one mapping, and the rows before the
\* first marker and the marker lines themselves give no record.
C9_SymbolTableMode ==
    InSymbols =>
        /\ in_table = AfterSymbolMarker(readelf_lines, Len(readelf_lines) + 1)
        /\ symbols = LastSymbols(readelf_lines, SymbolRowsAfterMarker(readelf_lines))
        /\ \A i \in 1..Len(readelf_lines) :
               StartsWith(readelf_lines[i], SymbolMarker) =>
                   i \notin SymbolRowsAfterMarker(readelf_lines)
        /\ pc = "symbols_returned" => result = symbols

\* C9 witness: a row before the first marker, then two symbol tables with a
\* blank line between them, each with one row; both rows are recorded.
C9_Witness ==
    /\ pc = "symbols"
    /\ readelf_lines = <<SymBarRow, SymMarkerLine, SymFooRow, SymBlankLine,
                         SymMarkerLine>>
    /\ in_table
    /\ DOMAIN symbols = {symbol_name(SymFooRow)}

\* The rows a pass accepted: the row-shaped lines it read with its flag set.
SectionRowsAccepted(lines) ==
    {i \in 1..Len(lines) :
        /\ SectionMatch[lines[i]].ok
        /\ sections_run(SubSeq(lines, 1, i - 1)).in_headers}

SymbolRowsAccepted(lines) ==
    {i \in 1..Len(lines) :
        /\ SymbolMatch[lines[i]].ok
        /\ symbols_run(SubSeq(lines, 1, i - 1)).in_table}

\* C10: last write wins in both passes: after any sequence of lines the keys
\* of the mapping are exactly the names of the accepted rows, and the record
\* under a name is the one built from the last accepted row that bears it
\* (for symbols also across symbol tables); the records of the other names
\* are those of their own last rows.
C10_LastWriteWins ==
    /\ InSections =>
          sections = LastSections(readelf_lines, SectionRowsAccepted(readelf_lines))
    /\ InSymbols =>
          symbols = LastSymbols(readelf_lines, SymbolRowsAccepted(readelf_lines))

\* C10 witness: the symbol foo in two symbol tables, with another symbol
\* between; foo holds the record of the later row.
C10_Witness ==
    /\ pc = "symbols"
    /\ readelf_lines = <<SymMarkerLine, SymFooRow, SymBarRow, SymMarkerLine, SymFooRowB>>
    /\ symbols[symbol_name(SymFooRow)] = new_symbol(SymbolMatch[SymFooRowB])
    /\ symbols[symbol_name(SymFooRow)] # new_symbol(SymbolMatch[SymFooRow])
    /\ symbols[symbol_name(SymBarRow)] = new_symbol(SymbolMatch[SymBarRow])

====
